---- MODULE Spec2Model ----
(***************************************************************************)
(* Model of the Telegram Excel filter bot (src/bot.py).                    *)
(*                                                                         *)
(* Texts (message texts, cell texts, file names) are sequences of          *)
(* one-character strings, so that strip(), lower(), "in" and endswith()    *)
(* are computed as Python computes them.  A workbook is a sequence of      *)
(* rows, a row a sequence of cells.  Conversations are keyed by            *)
(* (chat, user) as python-telegram-bot's ConversationHandler keys them     *)
(* (per_chat and per_user both default to True); context.user_data is      *)
(* keyed by the user alone.                                                *)
(***************************************************************************)
EXTENDS Integers, Sequences, FiniteSets, TLC

---------------------------------------------------------------------------
(* Python str helpers                                                      *)

Digits == <<"0", "1", "2", "3", "4", "5", "6", "7", "8", "9">>

IsDigitChar(c) == \E i \in 1..10 : Digits[i] = c

DigitVal(c) == (CHOOSE i \in 1..10 : Digits[i] = c) - 1

\* str.isspace() of one character
IsSpace(c) == c = " "

\* str.lower() of one character
LowerChar(c) ==
    CASE c = "A" -> "a"
      [] c = "B" -> "b"
      [] c = "L" -> "l"
      [] c = "N" -> "n"
      [] c = "S" -> "s"
      [] c = "X" -> "x"
      [] c = "Y" -> "y"
      [] OTHER -> c

Lower(s) == [i \in 1..Len(s) |-> LowerChar(s[i])]

\* str.strip(): leading and trailing whitespace removed
Strip(s) ==
    LET keep == {i \in 1..Len(s) : ~IsSpace(s[i])}
    IN  IF keep = {} THEN <<>>
        ELSE LET lo == CHOOSE i \in keep : \A j \in keep : i <= j
                 hi == CHOOSE i \in keep : \A j \in keep : j <= i
             IN  SubSeq(s, lo, hi)

\* Python's "a in b" for strings
Contains(a, b) ==
    \E i \in 0..(Len(b) - Len(a)) : SubSeq(b, i + 1, i + Len(a)) = a

\* str.endswith()
EndsWith(s, suffix) ==
    /\ Len(suffix) <= Len(s)
    /\ SubSeq(s, Len(s) - Len(suffix) + 1, Len(s)) = suffix

\* str.isdigit(): non-empty and every character a digit.  The superscript
\* two is a digit for isdigit() although int() rejects it.
IsDigitStr(s) ==
    /\ Len(s) > 0
    /\ \A i \in 1..Len(s) : IsDigitChar(s[i]) \/ s[i] = "sup2"

RECURSIVE DecimalValue(_)
DecimalValue(s) ==
    IF Len(s) = 0 THEN 0
    ELSE 10 * DecimalValue(SubSeq(s, 1, Len(s) - 1)) + DigitVal(s[Len(s)])

AllDecimal(s) == Len(s) > 0 /\ \A i \in 1..Len(s) : IsDigitChar(s[i])

\* int(txt) succeeds: an optional sign followed by decimal digits
IntParses(s) ==
    IF Len(s) > 0 /\ s[1] \in {"-", "+"} THEN AllDecimal(Tail(s))
    ELSE AllDecimal(s)

\* int(txt) where IntParses(txt)
IntOf(s) ==
    IF s[1] = "-" THEN 0 - DecimalValue(Tail(s))
    ELSE IF s[1] = "+" THEN DecimalValue(Tail(s))
    ELSE DecimalValue(s)

RECURSIVE NatStr(_)
\* str(n) of a non-negative int
NatStr(n) ==
    IF n < 10 THEN <<Digits[n + 1]>>
    ELSE Append(NatStr(n \div 10), Digits[(n % 10) + 1])

\* str(n) of an int
IntStr(n) == IF n < 0 THEN <<"-">> \o NatStr(0 - n) ELSE NatStr(n)

---------------------------------------------------------------------------
(* Cell values.  t is the Python type of the raw value: "none", "str",     *)
(* "int" or "float".  A float is n + 0.s, s its fractional digits without  *)
(* trailing zeros (empty for an integral float); below zero it is          *)
(* n - 0.s.                                                                *)

NoneCell == [t |-> "none", s |-> <<>>, n |-> 0]
StrCell(s) == [t |-> "str", s |-> s, n |-> 0]
IntCell(n) == [t |-> "int", s |-> <<>>, n |-> n]
FloatCell(n, frac) == [t |-> "float", s |-> frac, n |-> n]

\* str(raw) of a cell value that is not None
PyStr(v) ==
    CASE v.t = "str" -> v.s
      [] v.t = "int" -> IntStr(v.n)
      [] v.t = "float" -> IntStr(v.n) \o <<".">> \o (IF v.s = <<>> THEN <<"0">> ELSE v.s)
      [] OTHER -> <<"N", "o", "n", "e">>

\* what xlrd's sheet.row_values() gives for a stored cell: every number is
\* a float and an empty cell is the empty string
XlrdValue(v) ==
    CASE v.t = "none" -> StrCell(<<>>)
      [] v.t = "int" -> FloatCell(v.n, <<>>)
      [] OTHER -> v

\* what openpyxl's iter_rows(values_only=True) gives for a stored cell
OpenpyxlValue(v) == v

---------------------------------------------------------------------------
(* Worksheets: the rows appended to the clean workbook                     *)

MaxOf(S) == CHOOSE m \in S : \A x \in S : x <= m

\* ws.max_row: 1 for a sheet without cells
max_row(ws) == IF Len(ws) = 0 THEN 1 ELSE Len(ws)

\* ws.max_column: 1 for a sheet without cells
max_column(ws) ==
    IF Len(ws) = 0 THEN 1 ELSE MaxOf({Len(ws[r]) : r \in 1..Len(ws)} \cup {1})

\* ws.cell(r, c).value: None outside the cells that were appended
CellValue(ws, r, c) ==
    IF r \in 1..Len(ws) /\ c \in 1..Len(ws[r]) THEN ws[r][c] ELSE NoneCell

\* the rows appended to the clean workbook when openpyxl read the file
OpenpyxlRows(rows) ==
    [r \in 1..Len(rows) |-> [c \in 1..Len(rows[r]) |-> OpenpyxlValue(rows[r][c])]]

\* the rows appended to the clean workbook when xlrd read the file
XlrdRows(rows) ==
    [r \in 1..Len(rows) |-> [c \in 1..Len(rows[r]) |-> XlrdValue(rows[r][c])]]

---------------------------------------------------------------------------
(* load_excel_clean_from_bytes.  The bytes of a file are its container     *)
(* ("xlsx", "xls" or "junk") and the rows of its first sheet.              *)

DotXlsx == <<".", "x", "l", "s", "x">>
DotXls == <<".", "x", "l", "s">>

\* openpyxl.load_workbook succeeds on a modern container only
OpenpyxlOpens(bytes) == bytes.container = "xlsx"

\* xlrd.open_workbook succeeds on a legacy container only
XlrdOpens(bytes) == bytes.container = "xls"

\* the XLRDError raised for a modern container names it: its text holds
\* "xlsx file; not supported"
XlrdSaysXlsx(bytes) == bytes.container = "xlsx"

LoadOk(ws, via) == [ok |-> TRUE, ws |-> ws, via |-> via, err |-> "none"]
LoadRaises(err, via) == [ok |-> FALSE, ws |-> <<>>, via |-> via, err |-> err]

\* XlsFallback without the second attempt
XlsFallbackNever(bytes) == LoadRaises("XLRDError", "xlrd")

\* the branch taken when the legacy reader raises XLRDError
XlsFallback(bytes) ==
    IF XlrdSaysXlsx(bytes)
    THEN IF OpenpyxlOpens(bytes)
         THEN LoadOk(OpenpyxlRows(bytes.rows), "xlrd,openpyxl")
         ELSE LoadRaises("InvalidFile", "xlrd,openpyxl")
    ELSE LoadRaises("XLRDError", "xlrd")

load_excel_clean_from_bytes(bytes, file_name) ==
    LET lower == Lower(file_name)
    IN  IF EndsWith(lower, DotXlsx)
        THEN IF OpenpyxlOpens(bytes)
             THEN LoadOk(OpenpyxlRows(bytes.rows), "openpyxl")
             ELSE LoadRaises("InvalidFile", "openpyxl")
        ELSE IF EndsWith(lower, DotXls)
        THEN IF XlrdOpens(bytes)
             THEN LoadOk(XlrdRows(bytes.rows), "xlrd")
             ELSE XlsFallback(bytes)
        ELSE LoadRaises("ValueError", "")

---------------------------------------------------------------------------
(* Cell normalisation for the output                                       *)

is_integer_like_number(v) ==
    \/ v.t = "int"
    \/ v.t = "float" /\ v.s = <<>>

TwoDigits(n) == IF n < 10 THEN <<"0">> \o NatStr(n) ELSE NatStr(n)

\* strftime("%d-%m-%Y") of xlrd.xldate.xldate_as_datetime(serial, 0): the
\* calendar date `serial` days after 1899-12-30.  Serial 25569 is
\* 1970-01-01; the civil date is computed from the day count.
SerialDate(serial) ==
    LET z == serial - 25569 + 719468
        era == z \div 146097
        doe == z - era * 146097
        yoe == (doe - doe \div 1460 + doe \div 36524 - doe \div 146096) \div 365
        doy == doe - (365 * yoe + yoe \div 4 - yoe \div 100)
        mp == (5 * doy + 2) \div 153
        d == doy - (153 * mp + 2) \div 5 + 1
        m == IF mp < 10 THEN mp + 3 ELSE mp - 9
        y == yoe + era * 400 + (IF m <= 2 THEN 1 ELSE 0)
    IN  TwoDigits(d) \o <<"-">> \o TwoDigits(m) \o <<"-">> \o NatStr(y)

\* parse_possible_date(value) is not None, for the numbers: the serial
\* window is open at both ends.  (The texts of the modelled sheets match
\* none of the strptime formats.)
parse_possible_date_hits(v) ==
    /\ v.t \in {"int", "float"}
    /\ \/ 1000 < v.n /\ v.n < 100000
       \/ v.n = 1000 /\ v.s # <<>>

\* format_cell_for_output: None stays None (an empty output cell), every
\* other value becomes a text
format_cell_for_output(v) ==
    IF v.t = "none" THEN NoneCell
    ELSE IF is_integer_like_number(v) THEN StrCell(IntStr(v.n))
    ELSE IF parse_possible_date_hits(v) THEN StrCell(SerialDate(v.n))
    ELSE IF v.t = "str" THEN StrCell(Strip(v.s))
    ELSE StrCell(PyStr(v))

---------------------------------------------------------------------------
(* receive_query: the scan of the selected column and the ranking          *)

\* the limit passed to process.extract
ExtractLimit == 200
\* the number of ranked values presented and stored
PresentLimit == 40

Take(s, n) == IF Len(s) <= n THEN s ELSE SubSeq(s, 1, n)

\* norm = str(raw).strip().lower()
Norm(v) == Lower(Strip(PyStr(v)))

\* query.lower() in norm
QueryHits(query, v) == Contains(Lower(query), Norm(v))

\* the rows whose cell adds an entry to the dict `seen`: the cell is not
\* None, its norm contains the query and no row above holds the same norm
FirstHits(ws, col, query) ==
    {r \in 2..max_row(ws) :
        LET raw == CellValue(ws, r, col)
        IN  /\ raw.t # "none"
            /\ QueryHits(query, raw)
            /\ \A q \in 2..(r - 1) :
                 LET above == CellValue(ws, q, col)
                 IN  above.t = "none" \/ Norm(above) # Norm(raw)}

\* the dict `seen` after the loop over the data rows, as the sequence of
\* its items in insertion order: norm is the key, surface the value
ScanColumn(ws, col, query) ==
    LET hits == FirstHits(ws, col, query)
        row(i) == CHOOSE r \in hits : Cardinality({x \in hits : x < r}) = i - 1
    IN  [i \in 1..Cardinality(hits) |->
            [norm |-> Norm(CellValue(ws, row(i), col)),
             surface |-> Strip(PyStr(CellValue(ws, row(i), col)))]]

\* choices = list(seen.values())
Choices(ws, col, query) ==
    LET seen == ScanColumn(ws, col, query)
    IN  [i \in 1..Len(seen) |-> seen[i].surface]

RECURSIVE LCS(_, _)
\* length of a longest common subsequence
LCS(a, b) ==
    IF Len(a) = 0 \/ Len(b) = 0 THEN 0
    ELSE IF a[1] = b[1] THEN 1 + LCS(Tail(a), Tail(b))
    ELSE LET x == LCS(Tail(a), b)
             y == LCS(a, Tail(b))
         IN  IF x >= y THEN x ELSE y

\* fuzz.ratio, the normalised indel similarity 200 * LCS / (|a| + |b|),
\* scaled by 100 and rounded down so that scores compare as integers
Ratio(a, b) ==
    IF Len(a) + Len(b) = 0 THEN 10000
    ELSE (20000 * LCS(a, b)) \div (Len(a) + Len(b))

\* fuzz.partial_ratio: the best fuzz.ratio of the shorter text against a
\* window of the longer one; the windows have the shorter text's length,
\* or are shorter ones at either end of the longer text
PartialRatio(s1, s2) ==
    LET short == IF Len(s1) <= Len(s2) THEN s1 ELSE s2
        long == IF Len(s1) <= Len(s2) THEN s2 ELSE s1
        windows == {<<i, j>> \in (1..Len(long)) \X (1..Len(long)) :
                      /\ i <= j
                      /\ j - i + 1 <= Len(short)
                      /\ (j - i + 1 = Len(short) \/ i = 1 \/ j = Len(long))}
    IN  IF Len(short) = 0 THEN 0
        ELSE MaxOf({Ratio(short, SubSeq(long, w[1], w[2])) : w \in windows})

\* process.extract(query, choices, scorer=fuzz.partial_ratio, limit=200):
\* the choices by descending score, equal scores in the order of the list
Ranked(query, choices) ==
    LET n == Len(choices)
        score == [i \in 1..n |-> PartialRatio(query, choices[i])]
        before(i) == {j \in 1..n : score[j] > score[i] \/ (score[j] = score[i] /\ j < i)}
        at(k) == CHOOSE i \in 1..n : Cardinality(before(i)) = k - 1
    IN  Take([k \in 1..n |-> choices[at(k)]], ExtractLimit)

\* presented = ordered[:40]
Presented(ws, col, query) == Take(Ranked(query, Choices(ws, col, query)), PresentLimit)

---------------------------------------------------------------------------
(* receive_select: the filter and the output workbook                      *)

\* RowMatches with the chosen value compared as it is spelt
RowMatchesAsSpelt(chosen, val) ==
    /\ val.t # "none"
    /\ Contains(chosen, Lower(Strip(PyStr(val))))

\* chosen.lower() in str(val).strip().lower(), for a cell that is not None
RowMatches(chosen, val) ==
    /\ val.t # "none"
    /\ Contains(Lower(chosen), Lower(Strip(PyStr(val))))

RECURSIVE MatchedRows(_, _, _, _)
\* the data rows appended to the output, in the order of the sheet
MatchedRows(ws, col, chosen, r) ==
    IF r > max_row(ws) THEN <<>>
    ELSE (IF RowMatches(chosen, CellValue(ws, r, col)) THEN <<r>> ELSE <<>>)
         \o MatchedRows(ws, col, chosen, r + 1)

FormattedRow(ws, r) ==
    [c \in 1..max_column(ws) |-> format_cell_for_output(CellValue(ws, r, c))]

\* str(v) if v else "" of a header cell: None, "" and 0 are falsy
HeaderText(v) ==
    IF v.t = "none" \/ (v.t = "str" /\ v.s = <<>>) \/ (v.t \in {"int", "float"} /\ v.n = 0 /\ v.s = <<>>)
    THEN <<>>
    ELSE PyStr(v)

\* the output workbook and match_count
BuildOutput(ws, col, chosen) ==
    LET rows == MatchedRows(ws, col, chosen, 2)
    IN  [header |-> [c \in 1..max_column(ws) |-> HeaderText(CellValue(ws, 1, c))],
         source_rows |-> rows,
         rows |-> [i \in 1..Len(rows) |-> FormattedRow(ws, rows[i])],
         match_count |-> Len(rows)]

---------------------------------------------------------------------------
(* Configuration and the documents users upload                            *)

\* the row ceiling (MAX_ROWS of the environment, 200000 by default)
MAX_ROWS == 3
UPLOAD_MAX_MB == 8
UPLOAD_MAX_BYTES == UPLOAD_MAX_MB * 1024 * 1024

\* the number of uploads that reach save_uploaded_file in one run
MaxUploads == 2

Sheet1 ==
    << <<StrCell(<<"N">>), StrCell(<<"C">>)>>,
       <<StrCell(<<"A", "n", "n">>), StrCell(<<"N", "Y">>)>>,
       <<StrCell(<<"a", "n", "n", " ">>), StrCell(<<"l", "a">>)>>,
       <<StrCell(<<"A", "n", "n", "a">>), StrCell(<<"N", "Y">>)>> >>

Sheet2 ==
    << <<StrCell(<<"I", "d">>)>>,
       <<IntCell(12)>>,
       <<NoneCell>> >>

SheetLong ==
    << <<StrCell(<<"N">>)>>,
       <<StrCell(<<"a">>)>>, <<StrCell(<<"b">>)>>, <<StrCell(<<"a">>)>>, <<StrCell(<<"b">>)>> >>

Documents ==
    << [file_name |-> <<"a", ".", "x", "l", "s", "x">>, file_size |-> 9000, downloads |-> TRUE,
        bytes |-> [container |-> "xlsx", rows |-> Sheet1]],
       [file_name |-> <<"b", ".", "x", "l", "s">>, file_size |-> 9000, downloads |-> TRUE,
        bytes |-> [container |-> "xls", rows |-> Sheet2]],
       [file_name |-> <<"c", ".", "X", "L", "S">>, file_size |-> 0, downloads |-> TRUE,
        bytes |-> [container |-> "xlsx", rows |-> Sheet2]],
       [file_name |-> <<"e", ".", "x", "l", "s", "x">>, file_size |-> 9000, downloads |-> TRUE,
        bytes |-> [container |-> "xlsx", rows |-> <<>>]],
       [file_name |-> <<"l", ".", "x", "l", "s", "x">>, file_size |-> 9000, downloads |-> TRUE,
        bytes |-> [container |-> "xlsx", rows |-> SheetLong]],
       [file_name |-> <<"j", ".", "x", "l", "s", "x">>, file_size |-> 9000, downloads |-> TRUE,
        bytes |-> [container |-> "xls", rows |-> Sheet2]],
       [file_name |-> <<"j", ".", "x", "l", "s">>, file_size |-> 9000, downloads |-> TRUE,
        bytes |-> [container |-> "junk", rows |-> <<>>]],
       [file_name |-> <<"d", ".", "c", "s", "v">>, file_size |-> 9000, downloads |-> TRUE,
        bytes |-> [container |-> "junk", rows |-> <<>>]],
       [file_name |-> <<"a", ".", "x", "l", "s", "x">>, file_size |-> 9 * 1024 * 1024, downloads |-> TRUE,
        bytes |-> [container |-> "xlsx", rows |-> Sheet1]],
       [file_name |-> <<"a", ".", "x", "l", "s", "x">>, file_size |-> 9000, downloads |-> FALSE,
        bytes |-> [container |-> "xlsx", rows |-> Sheet1]] >>

DocIds == 1..Len(Documents)

\* the message texts users send
Texts ==
    { <<"0">>, <<"1">>, <<"2">>, <<"-", "1">>, <<"sup2">>, <<" ">>,
      <<"a", "n">>, <<"N", "y", " ">> }

---------------------------------------------------------------------------
(* State                                                                   *)

Users == {"u1", "u2"}

\* the conversation keys (chat_id, user_id): u1 writes in her private chat
\* c1 and in the group c2, u2 in the group c2
Keys == { [chat |-> "c1", user |-> "u1"],
          [chat |-> "c2", user |-> "u1"],
          [chat |-> "c2", user |-> "u2"] }

WAITING_FILE == "WAITING_FILE"
WAITING_COLUMN == "WAITING_COLUMN"
WAITING_QUERY == "WAITING_QUERY"
WAITING_SELECT == "WAITING_SELECT"
WAITING_CREATE_COLUMNS == "WAITING_CREATE_COLUMNS"
\* ConversationHandler.END: the conversation of the key is over (or none began)
END == "END"

VARIABLES
    conv,       \* filter_conv: the state of each key's conversation
    create,     \* create_conv: the state of each key's conversation
    user_data,  \* context.user_data of each user
    disk,       \* the files of UPLOAD_DIR, by path
    nsaved,     \* the number of paths save_uploaded_file has used
    last,       \* the update handled last: its key, handler and reply
    probe       \* the last direct call of a helper: its arguments and result

vars == <<conv, create, user_data, disk, nsaved, last, probe>>

\* a key that is not in user_data is 0 (paths and columns) or empty
NoData ==
    [file_path |-> 0, file_name |-> <<>>, max_col |-> 0, col |-> 0,
     candidates |-> <<>>, chosen_value |-> <<>>]

Paths == 1..MaxUploads

NoFile == [doc |-> 0, st |-> "absent"]

NoOutput == [header |-> <<>>, source_rows |-> <<>>, rows |-> <<>>, match_count |-> 0]

NoKey == [chat |-> "", user |-> ""]

NoBytes == [container |-> "junk", rows |-> <<>>]

NoProbe == [call |-> "", name |-> <<>>, bytes |-> NoBytes, cell |-> NoneCell,
            loaded |-> LoadRaises("", ""), formatted |-> NoneCell]

Init ==
    /\ conv = [k \in Keys |-> END]
    /\ create = [k \in Keys |-> END]
    /\ user_data = [u \in Users |-> NoData]
    /\ disk = [p \in Paths |-> NoFile]
    /\ nsaved = 0
    /\ last = [key |-> NoKey, update |-> "", handler |-> "", from |-> END, reply |-> ""]
    /\ probe = NoProbe

---------------------------------------------------------------------------
(* The handlers, as functions of what they read.  A result is the state    *)
(* returned, the user_data and the disk left behind, the reply, and        *)
(* whether the handler raised (the returned state then counts for nothing).*)

Result(state, data, reply) ==
    [state |-> state, data |-> data, reply |-> reply, raised |-> FALSE, output |-> NoOutput]

\* an exception leaves the handler: global_error_handler sends the reply
Raised(data) ==
    [state |-> END, data |-> data, reply |-> "Internal error occurred. Try again later.",
     raised |-> TRUE, output |-> NoOutput]

\* fname.lower().endswith(".xls") or fname.lower().endswith(".xlsx")
AcceptedName(fname) ==
    EndsWith(Lower(fname), DotXls) \/ EndsWith(Lower(fname), DotXlsx)

\* file_size and file_size > UPLOAD_MAX_BYTES
TooLarge(d) == d.file_size # 0 /\ d.file_size > UPLOAD_MAX_BYTES

\* the upload gets as far as save_uploaded_file
ReachesSave(d) == ~TooLarge(d) /\ AcceptedName(d.file_name) /\ d.downloads

\* TooManyRows with the ceiling itself refused
TooManyRowsAtCeiling(ws) == max_row(ws) - 1 >= MAX_ROWS

\* ws.max_row - 1 > MAX_ROWS
TooManyRows(ws) == max_row(ws) - 1 > MAX_ROWS

FileResult(state, data, dsk, n, reply) ==
    [state |-> state, data |-> data, disk |-> dsk, nsaved |-> n, reply |-> reply]

\* StoreUpload with the column count one too high
StoreUploadOneColumnMore(data, saved_path, fname, ws) ==
    [data EXCEPT !.file_path = saved_path, !.file_name = fname, !.max_col = max_column(ws) + 1]

\* context.user_data after the three assignments of an accepted upload
StoreUpload(data, saved_path, fname, ws) ==
    [data EXCEPT !.file_path = saved_path, !.file_name = fname, !.max_col = max_column(ws)]

\* FileError with the saved path recorded in user_data before the decoding
FileErrorAfterRecording(data, dsk, n) ==
    FileResult(WAITING_FILE, [data EXCEPT !.file_path = n], dsk, n,
               "Error while processing file. Make sure it's a valid .xls or .xlsx.")

\* the handler's except branch
FileError(data, dsk, n) ==
    FileResult(WAITING_FILE, data, dsk, n,
               "Error while processing file. Make sure it's a valid .xls or .xlsx.")

\* NameRejected with the upload saved before its name is looked at
NameRejectedAfterSaving(data, dsk, n) ==
    FileResult(WAITING_FILE, data,
               [p \in DOMAIN dsk |-> IF p = n + 1 THEN [doc |-> 8, st |-> "ok"] ELSE dsk[p]],
               n + 1, "Please send only .xls or .xlsx files.")

\* the reply to a file name with neither extension
NameRejected(data, dsk, n) ==
    FileResult(WAITING_FILE, data, dsk, n, "Please send only .xls or .xlsx files.")

\* receive_file for the document with id `id`; n paths are used already
receive_file(data, dsk, n, id) ==
    LET d == Documents[id]
        fname == d.file_name
        saved_path == n + 1
        saved == [dsk EXCEPT ![saved_path] = [doc |-> id, st |-> "ok"]]
        loaded == load_excel_clean_from_bytes(d.bytes, fname)
    IN  IF TooLarge(d)
        THEN FileResult(WAITING_FILE, data, dsk, n, "File too large.")
        ELSE IF ~AcceptedName(fname)
        THEN NameRejected(data, dsk, n)
        ELSE IF ~d.downloads
        THEN FileError(data, dsk, n)
        ELSE IF ~loaded.ok
        THEN FileError(data, saved, n + 1)
        ELSE IF TooManyRows(loaded.ws)
        THEN FileResult(WAITING_FILE, data, [saved EXCEPT ![saved_path] = NoFile], n + 1,
                        "Workbook exceeds limit. Please upload a smaller file.")
        ELSE FileResult(WAITING_COLUMN, StoreUpload(data, saved_path, fname, loaded.ws),
                        saved, n + 1, "File loaded. Columns:")

\* ColumnOutOfRange with the lower limit off by one
ColumnOutOfRangeFromZero(c, maxcol) == c < 0 \/ c > maxcol

\* c < 1 or c > context.user_data["max_col"]
ColumnOutOfRange(c, maxcol) == c < 1 \/ c > maxcol

\* receive_column passing a valid column straight on to the selection
receive_columnSkipsQuery(data, text) ==
    LET txt == Strip(text)
    IN  IF ~IntParses(txt)
        THEN Result(WAITING_COLUMN, data, "Send a valid column number.")
        ELSE IF data.max_col = 0
        THEN Result(END, data, "Session expired or no file loaded. Send a file first (/start).")
        ELSE IF ColumnOutOfRange(IntOf(txt), data.max_col)
        THEN Result(WAITING_COLUMN, data, "Invalid column number.")
        ELSE Result(WAITING_SELECT, [data EXCEPT !.col = IntOf(txt)], "Enter a search string.")

receive_column(data, text) ==
    LET txt == Strip(text)
    IN  IF ~IntParses(txt)
        THEN Result(WAITING_COLUMN, data, "Send a valid column number.")
        ELSE IF data.max_col = 0
        THEN Result(END, data, "Session expired or no file loaded. Send a file first (/start).")
        ELSE IF ColumnOutOfRange(IntOf(txt), data.max_col)
        THEN Result(WAITING_COLUMN, data, "Invalid column number.")
        ELSE Result(WAITING_QUERY, [data EXCEPT !.col = IntOf(txt)], "Enter a search string.")

\* not file_path or not os.path.exists(file_path)
FileMissing(data, dsk) == data.file_path = 0 \/ dsk[data.file_path].st = "absent"

\* reading the stored file and decoding it under the stored name
\* (context.user_data.get("file_name", "file.xlsx"))
LoadStored(data, dsk) ==
    LET f == dsk[data.file_path]
        name == IF data.file_name = <<>> THEN <<"f", "i", "l", "e">> \o DotXlsx ELSE data.file_name
    IN  IF f.st = "bad" THEN LoadRaises("OSError", "")
        ELSE load_excel_clean_from_bytes(Documents[f.doc].bytes, name)

\* QueryOutcome with a single candidate resolved at once
QueryOutcomeResolvesSingle(data, presented) ==
    IF presented = <<>>
    THEN Result(END, data, "No matches found.")
    ELSE IF Len(presented) = 1
    THEN Result(END, [data EXCEPT !.chosen_value = presented[1]], "Filtered file ready.")
    ELSE Result(WAITING_SELECT, [data EXCEPT !.candidates = presented],
                "Found values. Reply with number (0 to cancel).")

\* QueryOutcome with an empty result listed like any other
QueryOutcomeListsNothing(data, presented) ==
    Result(WAITING_SELECT, [data EXCEPT !.candidates = presented],
           "Found values. Reply with number (0 to cancel).")

\* what receive_query does once the candidates are known
QueryOutcome(data, presented) ==
    IF presented = <<>>
    THEN Result(END, data, "No matches found.")
    ELSE Result(WAITING_SELECT, [data EXCEPT !.candidates = presented],
                "Found values. Reply with number (0 to cancel).")

receive_query(data, dsk, text) ==
    LET query == Strip(text)
    IN  IF query = <<>>
        THEN Result(WAITING_QUERY, data, "Search string cannot be empty.")
        ELSE IF FileMissing(data, dsk)
        THEN Result(END, data, "Uploaded file not found (session expired). Please upload again.")
        ELSE LET loaded == LoadStored(data, dsk)
             IN  IF ~loaded.ok THEN Raised(data)
                 ELSE IF data.col = 0
                 THEN Result(END, data, "Column not selected. Start again (/start).")
                 ELSE QueryOutcome(data, Presented(loaded.ws, data.col, query))

\* idx == 0
SelectsCancel(idx) == idx = 0

\* idx < 1 or idx > len(candidates)
SelectionOutOfRange(idx, candidates) == idx < 1 \/ idx > Len(candidates)

\* context.user_data["chosen_value"] = chosen
StoreChosen(data, chosen) == [data EXCEPT !.chosen_value = chosen]

\* the part of receive_select after the chosen value is stored
Deliver(data, dsk, chosen) ==
    IF FileMissing(data, dsk)
    THEN Result(END, data, "Uploaded file not found (session expired). Please upload again.")
    ELSE LET loaded == LoadStored(data, dsk)
             built == BuildOutput(loaded.ws, data.col, chosen)
         IN  IF ~loaded.ok THEN Raised(data)
             \* ws.cell(r, None) raises once the loop over the data rows runs
             ELSE IF data.col = 0 /\ max_row(loaded.ws) >= 2 THEN Raised(data)
             ELSE IF built.match_count = 0
             THEN Result(END, data, "Unexpected: no rows matched.")
             ELSE [Result(END, data, "Filtered file ready.") EXCEPT !.output = built]

receive_select(data, dsk, text) ==
    LET txt == Strip(text)
    IN  IF ~IsDigitStr(txt)
        THEN Result(WAITING_SELECT, data, "Enter a valid number.")
        \* int(txt) raises ValueError on a digit that is not decimal
        ELSE IF ~IntParses(txt) THEN Raised(data)
        ELSE IF SelectsCancel(IntOf(txt))
        THEN Result(END, data, "Cancelled.")
        ELSE IF SelectionOutOfRange(IntOf(txt), data.candidates)
        THEN Result(WAITING_SELECT, data, "Invalid selection.")
        ELSE LET chosen == data.candidates[IntOf(txt)]
             IN  Deliver(StoreChosen(data, chosen), dsk, chosen)

\* cancel returning to the start of the conversation instead of ending it
cancelRestarts(data) == Result(WAITING_FILE, data, "Operation cancelled.")

\* cancel, the fallback of both conversations
cancel(data) == Result(END, data, "Operation cancelled.")

\* start, an entry point of filter_conv
start(data) == Result(WAITING_FILE, data, "Send an Excel file (.xls or .xlsx).")

create_start(data) == Result(WAITING_CREATE_COLUMNS, data, "Send column names separated by commas.")

\* cols = [c.strip() for c in text.split(",") if c.strip()] is not empty:
\* some character is neither a comma nor whitespace
HasColumnName(text) == \E i \in 1..Len(text) : text[i] # "," /\ ~IsSpace(text[i])

receive_create_columns(data, text) ==
    IF Strip(text) = <<>>
    THEN Result(WAITING_CREATE_COLUMNS, data, "Column list cannot be empty.")
    ELSE IF ~HasColumnName(Strip(text))
    THEN Result(WAITING_CREATE_COLUMNS, data, "Invalid column list.")
    ELSE Result(END, data, "Empty Excel template created.")

---------------------------------------------------------------------------
(* build_application: which handler takes an update.  Both conversations   *)
(* allow re-entry, so the entry points are tried first in every state;     *)
(* then the handlers of the state, then the fallbacks.  The application    *)
(* offers an update to filter_conv, then create_conv, then /health, and    *)
(* the first that takes it handles it.                                     *)

\* filter_conv_handler with allow_reentry off: the entry points are tried
\* only while no conversation is under way
filter_conv_handlerNoReentry(state, update) ==
    IF state = END
    THEN (IF update = "/start" THEN "start"
          ELSE IF update = "document" THEN "receive_file"
          ELSE "")
    ELSE IF state = WAITING_FILE /\ update = "document" THEN "receive_file"
    ELSE IF state = WAITING_COLUMN /\ update = "text" THEN "receive_column"
    ELSE IF state = WAITING_QUERY /\ update = "text" THEN "receive_query"
    ELSE IF state = WAITING_SELECT /\ update = "text" THEN "receive_select"
    ELSE IF update = "/cancel" THEN "cancel"
    ELSE ""

filter_conv_handler(state, update) ==
    IF update = "/start" THEN "start"
    ELSE IF update = "document" THEN "receive_file"
    ELSE IF state = END THEN ""
    ELSE IF state = WAITING_COLUMN /\ update = "text" THEN "receive_column"
    ELSE IF state = WAITING_QUERY /\ update = "text" THEN "receive_query"
    ELSE IF state = WAITING_SELECT /\ update = "text" THEN "receive_select"
    ELSE IF update = "/cancel" THEN "cancel"
    ELSE ""

create_conv_handler(state, update) ==
    IF update = "/create" THEN "create_start"
    ELSE IF state = END THEN ""
    ELSE IF state = WAITING_CREATE_COLUMNS /\ update = "text" THEN "receive_create_columns"
    ELSE IF update = "/cancel" THEN "cancel"
    ELSE ""

\* the conversation ("filter", "create") or handler ("health") that takes
\* the update, "" when none does
Taker(k, update) ==
    IF filter_conv_handler(conv[k], update) # "" THEN "filter"
    ELSE IF create_conv_handler(create[k], update) # "" THEN "create"
    ELSE IF update = "/health" THEN "health"
    ELSE ""

\* the state a conversation is left in: an exception that leaves the
\* handler leaves the conversation where it was
NextState(old, res) == IF res.raised THEN old ELSE res.state

Handled(k, update, handler, reply) ==
    last' = [key |-> k, update |-> update, handler |-> handler, from |-> conv[k],
             reply |-> reply]

\* a handler of filter_conv ran and left `res`
FilterStep(k, update, res) ==
    /\ conv' = [conv EXCEPT ![k] = NextState(conv[k], res)]
    /\ user_data' = [user_data EXCEPT ![k.user] = res.data]
    /\ Handled(k, update, filter_conv_handler(conv[k], update), res.reply)
    /\ UNCHANGED <<create, disk, nsaved, probe>>

\* a handler of create_conv ran and left `res`
CreateStep(k, update, res) ==
    /\ create' = [create EXCEPT ![k] = NextState(create[k], res)]
    /\ user_data' = [user_data EXCEPT ![k.user] = res.data]
    /\ Handled(k, update, create_conv_handler(create[k], update), res.reply)
    /\ UNCHANGED <<conv, disk, nsaved, probe>>

---------------------------------------------------------------------------
(* Actions: one per handler, and the environment's                         *)

Start(k) ==
    /\ Taker(k, "/start") = "filter"
    /\ FilterStep(k, "/start", start(user_data[k.user]))

Upload(k, id) ==
    /\ Taker(k, "document") = "filter"
    /\ ReachesSave(Documents[id]) => nsaved < MaxUploads
    /\ LET res == receive_file(user_data[k.user], disk, nsaved, id)
       IN  /\ conv' = [conv EXCEPT ![k] = res.state]
           /\ user_data' = [user_data EXCEPT ![k.user] = res.data]
           /\ disk' = res.disk
           /\ nsaved' = res.nsaved
           /\ Handled(k, "document", "receive_file", res.reply)
    /\ UNCHANGED <<create, probe>>

Column(k, text) ==
    /\ Taker(k, "text") = "filter"
    /\ conv[k] = WAITING_COLUMN
    /\ FilterStep(k, "text", receive_column(user_data[k.user], text))

Query(k, text) ==
    /\ Taker(k, "text") = "filter"
    /\ conv[k] = WAITING_QUERY
    /\ FilterStep(k, "text", receive_query(user_data[k.user], disk, text))

Select(k, text) ==
    /\ Taker(k, "text") = "filter"
    /\ conv[k] = WAITING_SELECT
    /\ FilterStep(k, "text", receive_select(user_data[k.user], disk, text))

CancelFilter(k) ==
    /\ Taker(k, "/cancel") = "filter"
    /\ FilterStep(k, "/cancel", cancel(user_data[k.user]))

CancelCreate(k) ==
    /\ Taker(k, "/cancel") = "create"
    /\ CreateStep(k, "/cancel", cancel(user_data[k.user]))

CreateStart(k) ==
    /\ Taker(k, "/create") = "create"
    /\ CreateStep(k, "/create", create_start(user_data[k.user]))

CreateColumns(k, text) ==
    /\ Taker(k, "text") = "create"
    /\ CreateStep(k, "text", receive_create_columns(user_data[k.user], text))

Health(k) ==
    /\ Taker(k, "/health") = "health"
    /\ Handled(k, "/health", "health", "OK")
    /\ UNCHANGED <<conv, create, user_data, disk, nsaved, probe>>

\* an update no handler takes is dropped without a reply
Dropped(k, update) ==
    /\ update \in {"text", "/cancel"}
    /\ Taker(k, update) = ""
    /\ Handled(k, update, "", "")
    /\ UNCHANGED <<conv, create, user_data, disk, nsaved, probe>>

\* a conversation is at a step that reads the file.  receive_query and
\* receive_select are the only readers of a stored upload, so the loss of
\* a file at any other time shows exactly as its loss right before they run
InUse(p) ==
    \E k \in Keys : user_data[k.user].file_path = p /\ conv[k] \in {WAITING_QUERY, WAITING_SELECT}

\* a stored upload disappears from UPLOAD_DIR
RemoveFile(p) ==
    /\ InUse(p)
    /\ disk[p].st # "absent"
    /\ disk' = [disk EXCEPT ![p] = NoFile]
    /\ UNCHANGED <<conv, create, user_data, nsaved, last, probe>>

\* a stored upload can no longer be read or decoded
DamageFile(p) ==
    /\ InUse(p)
    /\ disk[p].st = "ok"
    /\ disk' = [disk EXCEPT ![p].st = "bad"]
    /\ UNCHANGED <<conv, create, user_data, nsaved, last, probe>>

\* the steps of the filtering conversation in the chats K, whose users
\* send the texts T and the documents D, and of the environment
FilterSteps(K, T, D) ==
    \/ \E k \in K : Start(k)
    \/ \E k \in K, id \in D : Upload(k, id)
    \/ \E k \in K, text \in T : Column(k, text)
    \/ \E k \in K, text \in T : Query(k, text)
    \/ \E k \in K, text \in T : Select(k, text)
    \/ \E k \in K : CancelFilter(k)
    \/ \E p \in Paths : RemoveFile(p)
    \/ \E p \in Paths : DamageFile(p)

\* the steps of the create-template conversation and of /health, and the
\* updates no handler takes
OtherSteps(K, T) ==
    \/ \E k \in K : CancelCreate(k)
    \/ \E k \in K : CreateStart(k)
    \/ \E k \in K, text \in T : CreateColumns(k, text)
    \/ \E k \in K : Health(k)
    \/ \E k \in K, update \in {"text", "/cancel"} : Dropped(k, update)

\* one user in one chat
OneChat == { [chat |-> "c1", user |-> "u1"] }

\* one chat whose user sends what the filtering conversation handles
Next == FilterSteps(OneChat, Texts, DocIds)

Spec == Init /\ [][Next]_vars

\* one chat whose user sends every command, with fewer texts and documents
BothTexts == { <<"1">>, <<"a", "n">>, <<",">>, <<" ">> }
BothDocs == {1, 8}

NextBoth == FilterSteps(OneChat, BothTexts, BothDocs) \/ OtherSteps(OneChat, BothTexts)

SpecBoth == Init /\ [][NextBoth]_vars

\* u1 in two chats and u2 beside her in the second: the filtering
\* conversations alone, with fewer inputs
ChatTexts == { <<"1">>, <<"a", "n">> }
ChatDocs == {1, 2}

NextChats ==
    \/ \E k \in Keys : Start(k)
    \/ \E k \in Keys, id \in ChatDocs : Upload(k, id)
    \/ \E k \in Keys, text \in ChatTexts : Column(k, text)
    \/ \E k \in Keys, text \in ChatTexts : Query(k, text)
    \/ \E k \in Keys, text \in ChatTexts : Select(k, text)
    \/ \E k \in Keys : CancelFilter(k)

SpecChats == Init /\ [][NextChats]_vars

---------------------------------------------------------------------------
(* The decoder and the cell normaliser called directly, on file names,     *)
(* containers and cell values the uploads above do not carry              *)

ProbeNames ==
    { <<"a", ".", "x", "l", "s", "x">>, <<"A", ".", "X", "L", "S", "X">>,
      <<"b", ".", "x", "l", "s">>, <<"c", ".", "X", "L", "S">>,
      <<".", "x", "l", "s">>, <<"x", "l", "s", "x">>,
      <<"a", ".", "x", "l", "s", "x", " ">>, <<"a", ".", "x", "l", "s", ".", "t">>,
      <<"d", ".", "c", "s", "v">>, <<>> }

ProbeBytes ==
    [container : {"xlsx", "xls", "junk"}, rows : {<<>>, Sheet1, Sheet2, SheetLong}]

\* the integral parts of the probed numbers: around both ends of the
\* serial window, inside it, below zero and far outside
ProbeNumbers ==
    (995..1005) \cup (99995..100005)
        \cup {0 - 45000, 0 - 1001, 0 - 1, 0, 1, 12, 59, 61, 2000, 36526, 45000, 250000}

ProbeCells ==
    {IntCell(n) : n \in ProbeNumbers}
        \cup {FloatCell(n, frac) : n \in ProbeNumbers, frac \in {<<>>, <<"5">>, <<"2", "5">>}}
        \cup {NoneCell, StrCell(<<" ", "a", " ">>)}

\* load_excel_clean_from_bytes(file_bytes, file_name) is called
Decode(name, bytes) ==
    /\ probe' = [NoProbe EXCEPT !.call = "load_excel_clean_from_bytes", !.name = name,
                                !.bytes = bytes,
                                !.loaded = load_excel_clean_from_bytes(bytes, name)]
    /\ UNCHANGED <<conv, create, user_data, disk, nsaved, last>>

\* format_cell_for_output(value) is called
Format(v) ==
    /\ probe' = [NoProbe EXCEPT !.call = "format_cell_for_output", !.cell = v,
                                !.formatted = format_cell_for_output(v)]
    /\ UNCHANGED <<conv, create, user_data, disk, nsaved, last>>

NextPure ==
    \/ \E name \in ProbeNames, bytes \in ProbeBytes : Decode(name, bytes)
    \/ \E v \in ProbeCells : Format(v)

SpecPure == Init /\ [][NextPure]_vars

---------------------------------------------------------------------------
(* Properties                                                              *)

\* the session data of a conversation key: the user_data of its user
Data(k) == user_data[k.user]

NonTerminal == {WAITING_FILE, WAITING_COLUMN, WAITING_QUERY, WAITING_SELECT}

Delivered == "Filtered file ready."

\* the worksheet decoded from the stored file of `data`
StoredSheet(data) == LoadStored(data, disk).ws

\* the stored file of `data` is there and decodes
StoredReadable(data) == ~FileMissing(data, disk) /\ LoadStored(data, disk).ok

\* the search of receive_query runs for text t and finds exactly one value
OneCandidate(k, t) ==
    /\ Strip(t) # <<>>
    /\ StoredReadable(Data(k))
    /\ Data(k).col # 0
    /\ Len(Choices(StoredSheet(Data(k)), Data(k).col, Strip(t))) = 1

EqualsChosen(chosen, val) ==
    /\ val.t # "none"
    /\ Lower(Strip(PyStr(val))) = Lower(Strip(chosen))

\* the data rows of ws whose cell in column col equals the chosen value
EqualRows(ws, col, chosen) ==
    {r \in 2..max_row(ws) : EqualsChosen(chosen, CellValue(ws, r, col))}

\* C2: the rows written to a delivered output, and match_count, are exactly
\* the data rows whose cell in the filter column equals the chosen value;
\* a row that only contains the chosen value is left out.
C2_ExactMatchOnly ==
    [][last'.reply = Delivered => \A k \in {last'.key}, t \in Texts :
        Select(k, t)
            => LET out == receive_select(Data(k), disk, t).output
                   equal == EqualRows(StoredSheet(Data(k)), Data(k).col, Data(k)'.chosen_value)
               IN  /\ {out.source_rows[i] : i \in 1..Len(out.source_rows)} = equal
                   /\ out.match_count = Cardinality(equal)]_vars

\* C3: handling an update of one chat changes neither the conversation
\* state nor the session data of a conversation that is under way in
\* another chat.
C3_ChatsIsolated ==
    [][\A k \in {last'.key}, j \in Keys :
        (j.chat # k.chat /\ conv[j] \in NonTerminal)
            => (conv'[j] = conv[j] /\ Data(j)' = Data(j))]_vars

\* C4: /cancel in any non-terminal state of the filtering conversation is
\* taken by cancel and ends the conversation in that step; nothing is
\* delivered.
C4_CancelEndsSession ==
    (last.update = "/cancel" /\ last.from \in NonTerminal)
        => /\ last.handler = "cancel"
           /\ conv[last.key] = END
           /\ last.reply = "Operation cancelled."

C4_Witness ==
    /\ last.update = "/cancel"
    /\ last.from = WAITING_SELECT
    /\ conv[last.key] = END

\* C5: once a step has ended a filtering conversation, user_data holds
\* nothing for it.
C5_TerminalClearsData ==
    (last.from \in NonTerminal /\ conv[last.key] = END)
        => Data(last.key) = NoData

\* the handler reaches the decoding of the stored file, which raises
DecodeRaises(k) == ~FileMissing(Data(k), disk) /\ ~LoadStored(Data(k), disk).ok

\* C6: when the decoding of the stored file raises in receive_query or
\* receive_select, the user gets the generic failure reply, the session
\* ends and no session field is changed by the failed step.
C6_FailureEndsSession ==
    [][last'.reply = "Internal error occurred. Try again later." =>
       \A k \in {last'.key}, t \in Texts :
        (DecodeRaises(k) /\ (Query(k, t) \/ Select(k, t)))
            => (conv'[k] = END /\ Data(k)' = Data(k))]_vars

\* the upload fails in the download or in the decoding
UploadFails(id) ==
    /\ ~TooLarge(Documents[id])
    /\ AcceptedName(Documents[id].file_name)
    /\ \/ ~Documents[id].downloads
       \/ ~load_excel_clean_from_bytes(Documents[id].bytes, Documents[id].file_name).ok

\* C7: an upload in WAITING_FILE whose download or decoding fails leaves
\* the session in WAITING_FILE with the error reply and the session data
\* as it was.
C7_FailedUploadKeepsSession ==
    [][last'.handler = "receive_file" => \A k \in {last'.key}, id \in DocIds :
        (conv[k] = WAITING_FILE /\ UploadFails(id) /\ Upload(k, id))
            => /\ conv'[k] = WAITING_FILE
               /\ last'.reply = "Error while processing file. Make sure it's a valid .xls or .xlsx."
               /\ Data(k)' = Data(k)]_vars

C7_Witness ==
    /\ last.handler = "receive_file"
    /\ last.from = WAITING_FILE
    /\ last.reply = "Error while processing file. Make sure it's a valid .xls or .xlsx."
    /\ conv[last.key] = WAITING_FILE
    /\ Data(last.key).file_path # 0
    /\ nsaved > Data(last.key).file_path

\* C8: an upload that decodes to zero rows is rejected and the session
\* stays in WAITING_FILE.
C8_EmptyWorkbookRejected ==
    [][last'.handler = "receive_file" => \A k \in {last'.key}, id \in DocIds :
        (Documents[id].bytes.rows = <<>> /\ Upload(k, id))
            => (conv'[k] = WAITING_FILE /\ last'.reply # "File loaded. Columns:")]_vars

\* C9: in WAITING_SELECT, 0 ends the session without a delivery; i in
\* 1..len(candidates) stores candidates[i-1] as the chosen value, delivers
\* and ends the session; every other text is answered with a reprompt and
\* changes neither the state nor the session data.
C9_SelectionOutcomes ==
    [][last'.handler = "receive_select" => \A k \in {last'.key}, t \in Texts :
        Select(k, t)
            => LET txt == Strip(t)
                   idx == IntOf(txt)
               IN  IF IntParses(txt) /\ idx = 0
                   THEN conv'[k] = END /\ last'.reply # Delivered
                   ELSE IF IntParses(txt) /\ idx \in 1..Len(Data(k).candidates)
                   THEN /\ Data(k)'.chosen_value = Data(k).candidates[idx]
                        /\ last'.reply = Delivered
                        /\ conv'[k] = END
                   ELSE /\ last'.reply \in {"Enter a valid number.", "Invalid selection."}
                        /\ conv'[k] = WAITING_SELECT
                        /\ Data(k)' = Data(k)]_vars

\* C10: in WAITING_COLUMN, an integer c in 1..max_col is stored as the
\* selected column and the session moves to WAITING_QUERY; every other
\* text is answered with a reprompt, keeps WAITING_COLUMN and changes no
\* session data.
C10_ColumnChoice ==
    [][last'.handler = "receive_column" => \A k \in {last'.key}, t \in Texts :
        Column(k, t)
            => LET txt == Strip(t)
               IN  IF IntParses(txt) /\ IntOf(txt) \in 1..Data(k).max_col
                   THEN /\ Data(k)' = [Data(k) EXCEPT !.col = IntOf(txt)]
                        /\ conv'[k] = WAITING_QUERY
                        /\ last'.reply = "Enter a search string."
                   ELSE /\ last'.reply \in {"Send a valid column number.", "Invalid column number."}
                        /\ conv'[k] = WAITING_COLUMN
                        /\ Data(k)' = Data(k)]_vars

C10_Witness ==
    /\ last.handler = "receive_column"
    /\ last.from = WAITING_COLUMN
    /\ conv[last.key] = WAITING_QUERY
    /\ Data(last.key).col = 2

\* the search of receive_query runs for text t and finds nothing
NoCandidate(k, t) ==
    /\ Strip(t) # <<>>
    /\ StoredReadable(Data(k))
    /\ Data(k).col # 0
    /\ Choices(StoredSheet(Data(k)), Data(k).col, Strip(t)) = <<>>

\* C11: in WAITING_QUERY a non-empty query that matches no cell of the
\* selected column ends the session in that step; the step stores no
\* candidate list (the session data stay as they were) and delivers
\* nothing.
C11_NoMatchEndsSession ==
    [][last'.handler = "receive_query" => \A k \in {last'.key}, t \in Texts :
        (Query(k, t) /\ NoCandidate(k, t))
            => /\ conv'[k] = END
               /\ Data(k)' = Data(k)
               /\ last'.reply = "No matches found."]_vars

C11_Witness ==
    /\ last.handler = "receive_query"
    /\ last.from = WAITING_QUERY
    /\ last.reply = "No matches found."
    /\ conv[last.key] = END

\* the text written to the output for a cell that is not None
OutputText(v) == format_cell_for_output(v).s

\* C12: every candidate stored by a query is the text of a data-row cell of
\* the selected column whose normalised text (the text the output would
\* show for it) contains the query, letter case apart; and no two
\* candidates are equal, letter case apart.
C12_CandidatesMatchNormalisedText ==
    [][last'.handler = "receive_query" => \A k \in {last'.key}, t \in Texts :
        (Query(k, t) /\ conv'[k] = WAITING_SELECT)
            => LET ws == StoredSheet(Data(k))
                   col == Data(k).col
                   found == Data(k)'.candidates
               IN  /\ \A i \in 1..Len(found) : \E r \in 2..max_row(ws) :
                        LET v == CellValue(ws, r, col)
                        IN  /\ v.t # "none"
                            /\ found[i] \in {Strip(PyStr(v)), OutputText(v)}
                            /\ Contains(Lower(Strip(t)), Lower(OutputText(v)))
                   /\ \A i, j \in 1..Len(found) :
                        i # j => Lower(found[i]) # Lower(found[j])]_vars

\* C13: an upload whose name ends in neither ".xls" nor ".xlsx", letter
\* case apart, is rejected before anything is downloaded, saved or
\* decoded: no path of the upload directory is used, the session is in
\* WAITING_FILE afterwards and its data are as they were.
C13_UnsupportedNameRejected ==
    [][last'.handler = "receive_file" => \A k \in {last'.key}, id \in DocIds :
        (~AcceptedName(Documents[id].file_name) /\ Upload(k, id))
            => /\ conv'[k] = WAITING_FILE
               /\ last'.reply \in {"Please send only .xls or .xlsx files.", "File too large."}
               /\ Data(k)' = Data(k)
               /\ disk' = disk
               /\ nsaved' = nsaved]_vars

C13_Witness ==
    /\ last.handler = "receive_file"
    /\ last.from = WAITING_FILE
    /\ last.reply = "Please send only .xls or .xlsx files."
    /\ conv[last.key] = WAITING_FILE

\* C14: a text message sent while the filtering conversation is in
\* WAITING_FILE is answered (with a reprompt), and leaves the state
\* WAITING_FILE and the session data as they were.
C14_TextRepromptedInWaitingFile ==
    [][(last' # last /\ last'.update = "text") => \A k \in {last'.key} :
        conv[k] = WAITING_FILE
            => /\ last'.reply # ""
               /\ conv'[k] = WAITING_FILE
               /\ Data(k)' = Data(k)]_vars

\* the file name carries the legacy, the modern extension
LegacyName(name) == EndsWith(Lower(name), DotXls)
ModernName(name) == EndsWith(Lower(name), DotXlsx)

\* C15: the decoder's outcome by file name and container.  A legacy name
\* on a modern container is decoded by the modern reader after the legacy
\* reader refused it; a legacy name on any other unreadable container
\* fails with the legacy reader's error and no second attempt; a name
\* with neither extension fails with the unsupported-type error and no
\* reader tried; a modern name never falls back to the legacy reader.
C15_DecodeByNameAndContainer ==
    probe.call = "load_excel_clean_from_bytes"
        => LET name == probe.name
               bytes == probe.bytes
               res == probe.loaded
           IN  /\ (LegacyName(name) /\ bytes.container = "xlsx")
                    => /\ res.ok
                       /\ res.via = "xlrd,openpyxl"
                       /\ res.ws = OpenpyxlRows(bytes.rows)
               /\ (LegacyName(name) /\ bytes.container = "xls")
                    => (res.ok /\ res.via = "xlrd" /\ res.ws = XlrdRows(bytes.rows))
               /\ (LegacyName(name) /\ bytes.container = "junk")
                    => (~res.ok /\ res.via = "xlrd" /\ res.err = "XLRDError")
               /\ (ModernName(name) /\ bytes.container = "xlsx")
                    => (res.ok /\ res.via = "openpyxl" /\ res.ws = OpenpyxlRows(bytes.rows))
               /\ (ModernName(name) /\ bytes.container # "xlsx")
                    => (~res.ok /\ res.via = "openpyxl" /\ res.err = "InvalidFile")
               /\ (~LegacyName(name) /\ ~ModernName(name))
                    => (~res.ok /\ res.via = "" /\ res.err = "ValueError")

C15_Witness ==
    /\ probe.call = "load_excel_clean_from_bytes"
    /\ probe.name = <<"c", ".", "X", "L", "S">>
    /\ probe.bytes.container = "xlsx"
    /\ probe.bytes.rows = Sheet2
    /\ probe.loaded.ok

\* the rows after the header in the workbook of document id
DataRows(id) == Len(Documents[id].bytes.rows) - 1

\* the upload is downloaded, saved and decoded
Decodes(id) ==
    /\ ReachesSave(Documents[id])
    /\ load_excel_clean_from_bytes(Documents[id].bytes, Documents[id].file_name).ok

\* the documents whose upload gets as far as the row ceiling
DecodedDocs == {id \in DocIds : Decodes(id) /\ DataRows(id) >= MAX_ROWS}

SerialWindow(v) ==
    /\ v.t \in {"int", "float"}
    /\ v.n < 100000
    /\ (v.n > 1000 \/ (v.n = 1000 /\ v.s # <<>>))

\* the text of a number that is not taken for a date
PlainNumber(v) == IF v.s = <<>> THEN IntStr(v.n) ELSE PyStr(v)

\* C17: a number strictly between 1000 and 100000 is written as the
\* DD-MM-YYYY date of that serial, whether it is integral or not; zero, a
\* negative number or a number outside that range is written as a plain
\* number.
C17_SerialWindowGivesDate ==
    (probe.call = "format_cell_for_output" /\ probe.cell.t \in {"int", "float"})
        => IF SerialWindow(probe.cell)
           THEN probe.formatted = StrCell(SerialDate(probe.cell.n))
           ELSE probe.formatted = StrCell(PlainNumber(probe.cell))

\* a column of 45 distinct values, all found by the query "v", and what
\* receive_query presents and stores for it
SheetWide == [r \in 1..46 |-> <<StrCell(<<"v">> \o NatStr(r))>>]
WidePresented == Presented(SheetWide, 1, <<"v">>)

\* the stored upload is on disk as it was saved
StoredIntact(data) == data.file_path # 0 /\ disk[data.file_path].st = "ok"

\* C18: for a user in one chat.  In WAITING_QUERY and WAITING_SELECT the
\* stored file is the latest one saved, the stored name and column count
\* are that file's and the selected column lies in 1..max_col.  In
\* WAITING_SELECT the candidate list is not empty, has at most
\* PresentLimit entries and is what some query finds in the selected
\* column of the stored file.  (What receive_query presents for a column
\* of 45 matching values has exactly PresentLimit entries.)
C18_SessionDataCurrent ==
    /\ Len(WidePresented) = PresentLimit
    /\ \A k \in OneChat :
        LET data == Data(k)
        IN  /\ conv[k] \in {WAITING_QUERY, WAITING_SELECT}
                => /\ data.file_path = nsaved
                   /\ data.col \in 1..data.max_col
                   /\ StoredIntact(data)
                        => /\ data.file_name = Documents[disk[data.file_path].doc].file_name
                           /\ LoadStored(data, disk).ok
                           /\ data.max_col = max_column(StoredSheet(data))
            /\ conv[k] = WAITING_SELECT
                => /\ data.candidates # <<>>
                   /\ Len(data.candidates) <= PresentLimit
                   /\ StoredIntact(data)
                        => \E t \in Texts :
                            /\ Strip(t) # <<>>
                            /\ data.candidates = Presented(StoredSheet(data), data.col, Strip(t))

\* a second session has reached WAITING_SELECT on a second upload while
\* the chosen value of the first session is still stored
C18_Witness ==
    /\ last.handler = "receive_query"
    /\ conv[last.key] = WAITING_SELECT
    /\ Data(last.key).file_path = 2
    /\ Data(last.key).col = 1
    /\ Data(last.key).chosen_value = <<"N", "Y">>
    /\ Len(Data(last.key).candidates) = 2

\* the text selects one of the stored candidates
ValidSelection(k, t) ==
    /\ IntParses(Strip(t))
    /\ IntOf(Strip(t)) \in 1..Len(Data(k).candidates)

\* C19: for a user in one chat whose stored file is readable, every
\* selection of a listed candidate matches at least one row and delivers
\* the document; no step is answered with "Unexpected: no rows matched."
C19_SelectionAlwaysMatches ==
    [][last'.handler = "receive_select" => \A k \in {last'.key}, t \in Texts :
        Select(k, t)
            => /\ last'.reply # "Unexpected: no rows matched."
               /\ (ValidSelection(k, t) /\ StoredReadable(Data(k)))
                    => /\ receive_select(Data(k), disk, t).output.match_count >= 1
                       /\ last'.reply = Delivered
                       /\ conv'[k] = END]_vars

C19_Witness ==
    /\ last.handler = "receive_select"
    /\ last.from = WAITING_SELECT
    /\ last.reply = Delivered
    /\ Data(last.key).chosen_value = <<"A", "n", "n", "a">>

\* the upload is decoded and within the row ceiling
Accepted(id) == Decodes(id) /\ DataRows(id) <= MAX_ROWS

\* C20: a document is taken by receive_file in every state of the
\* filtering conversation.  From WAITING_COLUMN, WAITING_QUERY and
\* WAITING_SELECT an accepted upload replaces the stored path, name and
\* column count (and nothing else) and moves to WAITING_COLUMN; a rejected
\* one moves to WAITING_FILE and leaves the session data as they were.
C20_UploadReenters ==
    [][last' # last => \A k \in {last'.key} :
        /\ filter_conv_handler(conv[k], "document") = "receive_file"
        /\ last'.handler = "receive_file" => \A id \in DocIds :
            (Upload(k, id) /\ conv[k] \in {WAITING_COLUMN, WAITING_QUERY, WAITING_SELECT})
                => IF Accepted(id)
                   THEN /\ conv'[k] = WAITING_COLUMN
                        /\ Data(k)' =
                            [Data(k) EXCEPT
                               !.file_path = nsaved',
                               !.file_name = Documents[id].file_name,
                               !.max_col = max_column(Documents[id].bytes.rows)]
                        /\ disk'[nsaved'] = [doc |-> id, st |-> "ok"]
                   ELSE /\ conv'[k] = WAITING_FILE
                        /\ Data(k)' = Data(k)]_vars

\* an upload sent instead of a selection was accepted
C20_Witness ==
    /\ last.handler = "receive_file"
    /\ last.from = WAITING_SELECT
    /\ conv[last.key] = WAITING_COLUMN
    /\ Data(last.key).file_path = 2
    /\ Data(last.key).candidates # <<>>

\* C21: once a /cancel of a chat has been processed, neither the filtering
\* nor the create-template conversation of that chat is under way.
C21_CancelEndsEveryConversation ==
    last.update = "/cancel"
        => (conv[last.key] = END /\ create[last.key] = END)

\* the stored file and the selected column of a session
FileAndColumn(data) == <<data.file_path, data.file_name, data.max_col, data.col>>

\* C22: in one chat a document is delivered only at the end of the chain
\* accepted upload, valid column, matching query, valid selection, with no
\* accepted upload in between, and the value it is filtered by is one of
\* the candidates the latest query stored.  Stated step by step:
\*   - a delivery is a valid selection made in WAITING_SELECT, filtered by
\*     a member of the stored candidate list;
\*   - WAITING_SELECT is entered only from WAITING_QUERY, by a non-empty
\*     query whose matches are stored; while it lasts, the candidates, the
\*     file and the column stay;
\*   - WAITING_QUERY is entered only from WAITING_COLUMN, by a column in
\*     1..max_col; while it lasts, the file and the column stay;
\*   - WAITING_COLUMN is entered only by an accepted upload, and every
\*     accepted upload (every change of the stored file) leads there.
C22_DeliveryFollowsTheChain ==
    [][last' # last => \A k \in {last'.key} :
        LET from == conv[k]
            to == conv'[k]
            old == Data(k)
            new == Data(k)'
        IN  /\ last'.reply = Delivered
                => /\ from = WAITING_SELECT
                   /\ last'.handler = "receive_select"
                   /\ \E t \in Texts :
                        /\ Select(k, t)
                        /\ ValidSelection(k, t)
                        /\ new.chosen_value = old.candidates[IntOf(Strip(t))]
                        /\ receive_select(old, disk, t).output
                             = BuildOutput(StoredSheet(old), old.col, new.chosen_value)
                   /\ new.candidates = old.candidates
                   /\ FileAndColumn(new) = FileAndColumn(old)
            /\ to = WAITING_SELECT
                => IF from = WAITING_SELECT
                   THEN /\ new.candidates = old.candidates
                        /\ FileAndColumn(new) = FileAndColumn(old)
                   ELSE /\ from = WAITING_QUERY
                        /\ last'.handler = "receive_query"
                        /\ FileAndColumn(new) = FileAndColumn(old)
                        /\ \E t \in Texts :
                             /\ Query(k, t)
                             /\ Strip(t) # <<>>
                             /\ new.candidates = Presented(StoredSheet(old), old.col, Strip(t))
                             /\ new.candidates # <<>>
            /\ to = WAITING_QUERY
                => IF from = WAITING_QUERY
                   THEN FileAndColumn(new) = FileAndColumn(old)
                   ELSE /\ from = WAITING_COLUMN
                        /\ last'.handler = "receive_column"
                        /\ new.col \in 1..old.max_col
                        /\ new = [old EXCEPT !.col = new.col]
            /\ to = WAITING_COLUMN
                => IF last'.handler = "receive_file"
                   THEN /\ new.file_path = nsaved'
                        /\ nsaved' = nsaved + 1
                        /\ disk'[nsaved'].st = "ok"
                        /\ Accepted(disk'[nsaved'].doc)
                   ELSE /\ from = WAITING_COLUMN
                        /\ new = old
            /\ new.file_path # old.file_path
                => (last'.handler = "receive_file" /\ to = WAITING_COLUMN)]_vars

\* a second session on a second upload has delivered
C22_Witness ==
    /\ last.handler = "receive_select"
    /\ last.reply = Delivered
    /\ Data(last.key).file_path = 2
    /\ disk[1].st = "ok"

====
